---- MODULE Spec2Model ----
(***************************************************************************)
(* Model of the SCAN domain knowledge of src/data/scan.py: the grammar     *)
(* table, the input rewrite SCAN.transform_input and the shift-reduce      *)
(* dependency parser SCAN.parse, driven the way SCAN.load_data drives them *)
(* (rewrite the command tokens, then parse them).                          *)
(*                                                                         *)
(* Positions are 0-based as in the source; a token list is a TLA+ sequence *)
(* and At(l, p) reads position p of it.                                    *)
(***************************************************************************)
EXTENDS Integers, Sequences, FiniteSets, TLC

\* ------------------------------------------------------------------ bounds
MaxLen == 4
MaxCalls == 2

\* ----------------------------------------------------------- grammar table
action_word == {"turn", "walk", "look", "run", "jump"}
dir_word == {"left", "right"}
turn_times_word == {"opposite", "around"}
times_word == {"twice", "thrice"}
connect_word == {"and", "after"}

vocab == action_word \cup dir_word \cup turn_times_word \cup times_word \cup connect_word

\* The words the explored command lists are drawn from: at least one word
\* of every class, both turn-repeat words, both connectors, and "turn",
\* the only action word whose program returns the empty tuple.
Words == {"turn", "walk", "jump", "left", "right", "opposite", "around", "twice", "and", "after"}

ROOT == -1

\* op2precedence with the direction and turn-repeat classes exchanged
op2precedence_DirLow(sym) ==
    IF sym \in connect_word THEN 1
    ELSE IF sym \in times_word THEN 2
    ELSE IF sym \in turn_times_word THEN 4
    ELSE 3

op2precedence(sym) ==
    IF sym \in connect_word THEN 1
    ELSE IF sym \in times_word THEN 2
    ELSE IF sym \in turn_times_word THEN 3
    ELSE 4

sym2arity(sym) ==
    IF sym \in action_word THEN 0
    ELSE IF sym \in connect_word THEN 2
    ELSE 1

\* ----------------------------------------------------------------- helpers
At(l, p) == l[p + 1]

SetAt(l, p, v) == [l EXCEPT ![p + 1] = v]

Top(s) == s[Len(s)]

Pop(s) == SubSeq(s, 1, Len(s) - 1)

\* ------------------------------------------------------- transform_input
\* One iteration of the loop body for index k of the snapshot `snap`,
\* acting on the list `cur` that is being rewritten in place.  Reading
\* cur[k+1] past the end raises IndexError and leaves cur as it is.
SwapAt(snap, cur, k) ==
    IF At(snap, k) \notin turn_times_word THEN [out |-> cur, err |-> "none"]
    ELSE IF k + 1 >= Len(cur) THEN [out |-> cur, err |-> "IndexError"]
    ELSE [out |-> SetAt(SetAt(cur, k, At(cur, k + 1)), k + 1, At(snap, k)),
          err |-> "none"]

\* transform_input looping over the list it rewrites instead of a snapshot
RECURSIVE TransformFrom_Live(_, _, _)
TransformFrom_Live(snap, cur, k) ==
    IF k >= Len(cur) THEN [out |-> cur, err |-> "none"]
    ELSE LET r == SwapAt(cur, cur, k)
         IN  IF r.err # "none" THEN r ELSE TransformFrom_Live(snap, r.out, k + 1)

RECURSIVE TransformFrom(_, _, _)
TransformFrom(snap, cur, k) ==
    IF k >= Len(snap) THEN [out |-> cur, err |-> "none"]
    ELSE LET r == SwapAt(snap, cur, k)
         IN  IF r.err # "none" THEN r ELSE TransformFrom(snap, r.out, k + 1)

\* transform_input(input): the loop walks the snapshot input[:] and writes
\* to input itself.
transform_input(inp) == TransformFrom(inp, inp, 0)

\* ------------------------------------------------------------------ parse
\* The parser's locals as a record: i (loop index), values, operators,
\* head, args (for each reduced operator, the values it popped, bottom of
\* the stack first), pc and err.
ParseInit(inp) ==
    [i |-> 0, values |-> <<>>, operators |-> <<>>,
     head |-> [p \in 0 .. Len(inp) - 1 |-> ROOT],
     args |-> [p \in 0 .. Len(inp) - 1 |-> <<>>],
     pc |-> "scan", err |-> "none"]

\* a reduction that attaches only the topmost popped value
ReduceTop_HeadTopOnly(inp, st) ==
    LET op == Top(st.operators)
        k == sym2arity(At(inp, op))
        n == Len(st.values)
        m == IF k <= n THEN k ELSE n
        popped == SubSeq(st.values, n - m + 1, n)
        h == [p \in DOMAIN st.head |->
                IF m > 0 /\ popped[m] = p THEN op ELSE st.head[p]]
    IN  IF k > n
        THEN [st EXCEPT !.operators = Pop(st.operators), !.values = <<>>,
                        !.head = h, !.pc = "failed", !.err = "IndexError"]
        ELSE [st EXCEPT !.operators = Pop(st.operators),
                        !.values = Append(SubSeq(st.values, 1, n - k), op),
                        !.head = h,
                        !.args = [st.args EXCEPT ![op] = popped]]

\* a reduction that pops what the value stack holds and goes on when it
\* holds fewer values than the arity
ReduceTop_NoUnderflow(inp, st) ==
    LET op == Top(st.operators)
        k == sym2arity(At(inp, op))
        n == Len(st.values)
        m == IF k <= n THEN k ELSE n
        popped == SubSeq(st.values, n - m + 1, n)
        h == [p \in DOMAIN st.head |->
                IF \E j \in 1 .. m : popped[j] = p THEN op ELSE st.head[p]]
    IN  [st EXCEPT !.operators = Pop(st.operators),
                   !.values = Append(SubSeq(st.values, 1, n - m), op),
                   !.head = h,
                   !.args = [st.args EXCEPT ![op] = popped]]

\* op = operators.pop(); for _ in range(arity): head[values.pop()] = op;
\* values.append(op).  values.pop() on an empty list raises IndexError
\* after the heads assigned so far.
ReduceTop(inp, st) ==
    LET op == Top(st.operators)
        k == sym2arity(At(inp, op))
        n == Len(st.values)
        m == IF k <= n THEN k ELSE n
        popped == SubSeq(st.values, n - m + 1, n)
        h == [p \in DOMAIN st.head |->
                IF \E j \in 1 .. m : popped[j] = p THEN op ELSE st.head[p]]
    IN  IF k > n
        THEN [st EXCEPT !.operators = Pop(st.operators), !.values = <<>>,
                        !.head = h, !.pc = "failed", !.err = "IndexError"]
        ELSE [st EXCEPT !.operators = Pop(st.operators),
                        !.values = Append(SubSeq(st.values, 1, n - k), op),
                        !.head = h,
                        !.args = [st.args EXCEPT ![op] = popped]]

Scanning(inp, st) == st.pc = "scan" /\ st.i < Len(inp)

Draining(inp, st) == st.pc = "scan" /\ st.i = Len(inp)

\* the while condition with > in place of >=
MustReduce_Strict(inp, st) ==
    /\ Len(st.operators) > 0
    /\ op2precedence(At(inp, Top(st.operators))) > op2precedence(At(inp, st.i))

\* the condition of the while loop at the current symbol
MustReduce(inp, st) ==
    /\ Len(st.operators) > 0
    /\ op2precedence(At(inp, Top(st.operators))) >= op2precedence(At(inp, st.i))

\* values.insert(0, i) in place of values.append(i)
ShiftStep_Front(inp, st) ==
    [st EXCEPT !.values = <<st.i>> \o st.values, !.i = st.i + 1]

ShiftStep(inp, st) ==
    [st EXCEPT !.values = Append(st.values, st.i), !.i = st.i + 1]

PushStep(inp, st) ==
    [st EXCEPT !.operators = Append(st.operators, st.i), !.i = st.i + 1]

\* the end of parse without the assertion on the leftover values
FinishStep_NoAssert(inp, st) ==
    IF Len(st.values) = 0
    THEN [st EXCEPT !.pc = "failed", !.err = "IndexError"]
    ELSE [st EXCEPT !.values = Pop(st.values),
                    !.head = [st.head EXCEPT ![Top(st.values)] = ROOT],
                    !.pc = "done"]

\* root_op = values.pop(); head[root_op] = -1; assert len(values) == 0
FinishStep(inp, st) ==
    IF Len(st.values) = 0
    THEN [st EXCEPT !.pc = "failed", !.err = "IndexError"]
    ELSE LET root_op == Top(st.values)
             h == [st.head EXCEPT ![root_op] = ROOT]
         IN  IF Len(st.values) > 1
             THEN [st EXCEPT !.values = Pop(st.values), !.head = h,
                             !.pc = "failed", !.err = "AssertionError"]
             ELSE [st EXCEPT !.values = <<>>, !.head = h, !.pc = "done"]

\* one step of parse from the locals st
ParseStep(inp, st) ==
    IF Scanning(inp, st)
    THEN IF sym2arity(At(inp, st.i)) = 0 THEN ShiftStep(inp, st)
         ELSE IF MustReduce(inp, st) THEN ReduceTop(inp, st)
         ELSE PushStep(inp, st)
    ELSE IF Len(st.operators) > 0 THEN ReduceTop(inp, st)
    ELSE FinishStep(inp, st)

RECURSIVE ParseRun(_, _)
ParseRun(inp, st) ==
    IF st.pc # "scan" THEN st ELSE ParseRun(inp, ParseStep(inp, st))

\* parse(input) run to its return or its exception
parse(inp) == ParseRun(inp, ParseInit(inp))


\* --------------------------------------------------------------- sym2prog
RECURSIVE Repeat(_, _)
Repeat(x, n) == IF n = 0 THEN <<>> ELSE x \o Repeat(x, n - 1)

\* sym2prog with 'after' concatenating in the given order
sym2prog_AfterInOrder(sym, xs) ==
    CASE sym = "turn" -> [err |-> "none", val |-> <<>>]
      [] sym = "walk" -> [err |-> "none", val |-> <<1>>]
      [] sym = "look" -> [err |-> "none", val |-> <<2>>]
      [] sym = "run" -> [err |-> "none", val |-> <<3>>]
      [] sym = "jump" -> [err |-> "none", val |-> <<4>>]
      [] sym = "left" -> [err |-> "none", val |-> <<5>> \o xs[1]]
      [] sym = "right" -> [err |-> "none", val |-> <<6>> \o xs[1]]
      [] sym = "opposite" ->
            IF Len(xs[1]) = 0 THEN [err |-> "IndexError", val |-> <<>>]
            ELSE [err |-> "none", val |-> <<xs[1][1]>> \o xs[1]]
      [] sym = "around" -> [err |-> "none", val |-> Repeat(xs[1], 4)]
      [] sym = "twice" -> [err |-> "none", val |-> Repeat(xs[1], 2)]
      [] sym = "thrice" -> [err |-> "none", val |-> Repeat(xs[1], 3)]
      [] sym = "and" -> [err |-> "none", val |-> xs[1] \o xs[2]]
      [] sym = "after" -> [err |-> "none", val |-> xs[1] \o xs[2]]

\* The program of a symbol applied to the results xs of its children.
\* x[0] of the empty tuple raises IndexError.
sym2prog(sym, xs) ==
    CASE sym = "turn" -> [err |-> "none", val |-> <<>>]
      [] sym = "walk" -> [err |-> "none", val |-> <<1>>]
      [] sym = "look" -> [err |-> "none", val |-> <<2>>]
      [] sym = "run" -> [err |-> "none", val |-> <<3>>]
      [] sym = "jump" -> [err |-> "none", val |-> <<4>>]
      [] sym = "left" -> [err |-> "none", val |-> <<5>> \o xs[1]]
      [] sym = "right" -> [err |-> "none", val |-> <<6>> \o xs[1]]
      [] sym = "opposite" ->
            IF Len(xs[1]) = 0 THEN [err |-> "IndexError", val |-> <<>>]
            ELSE [err |-> "none", val |-> <<xs[1][1]>> \o xs[1]]
      [] sym = "around" -> [err |-> "none", val |-> Repeat(xs[1], 4)]
      [] sym = "twice" -> [err |-> "none", val |-> Repeat(xs[1], 2)]
      [] sym = "thrice" -> [err |-> "none", val |-> Repeat(xs[1], 3)]
      [] sym = "and" -> [err |-> "none", val |-> xs[1] \o xs[2]]
      [] sym = "after" -> [err |-> "none", val |-> xs[2] \o xs[1]]

\* -------------------------------------------------------------- evaluator
SetMin(S) == CHOOSE x \in S : \A y \in S : x <= y

RECURSIVE Ascending(_)
Ascending(S) ==
    IF S = {} THEN <<>> ELSE <<SetMin(S)>> \o Ascending(S \ {SetMin(S)})

\* the children of position p, recovered from the head array by position
Children(head, p) == Ascending({c \in DOMAIN head : head[c] = p})

\* Post-order evaluation of the subtree at p; fuel bounds the recursion
\* depth, so a cycle ends in CycleOrOrphanError.
RECURSIVE evaluate_at(_, _, _, _)
evaluate_at(inp, head, p, fuel) ==
    IF fuel = 0 THEN [err |-> "CycleOrOrphanError", val |-> <<>>]
    ELSE LET ch == Children(head, p)
             rs == [j \in 1 .. Len(ch) |-> evaluate_at(inp, head, ch[j], fuel - 1)]
         IN  IF \E j \in 1 .. Len(ch) : rs[j].err # "none"
             THEN [err |-> rs[CHOOSE j \in 1 .. Len(ch) : rs[j].err # "none"].err,
                   val |-> <<>>]
             ELSE IF Len(ch) # sym2arity(At(inp, p))
             THEN [err |-> "CycleOrOrphanError", val |-> <<>>]
             ELSE sym2prog(At(inp, p), [j \in 1 .. Len(ch) |-> rs[j].val])

\* evaluate(tokens, head): the action tuple at the root
evaluate(inp, head) ==
    LET roots == {p \in DOMAIN head : head[p] = ROOT}
    IN  IF Cardinality(roots) # 1 THEN [err |-> "CycleOrOrphanError", val |-> <<>>]
        ELSE evaluate_at(inp, head, CHOOSE p \in roots : TRUE, Len(inp))

\* ------------------------------------------------------------------ state
VARIABLES
    orig,       \* the command tokens as the caller built them
    input,      \* the caller's list object, which transform_input rewrites
    ret,        \* what the last transform_input call returned
    ncalls,     \* transform_input calls made on the list
    nerr,       \* exception of the last transform_input call, or "none"
    phase,      \* "idle", "parsing", "returned", "raised"
    loc         \* the locals of the running parse call

vars == <<orig, input, ret, ncalls, nerr, phase, loc>>

Lists == UNION {[1 .. n -> Words] : n \in 0 .. MaxLen}

NoLocals ==
    [i |-> 0, values |-> <<>>, operators |-> <<>>, head |-> <<>>,
     args |-> <<>>, pc |-> "none", err |-> "none"]

Init ==
    /\ orig \in Lists
    /\ input = orig
    /\ ret = <<>>
    /\ ncalls = 0
    /\ nerr = "none"
    /\ phase = "idle"
    /\ loc = NoLocals

\* transform_input rewriting a private copy and returning the copy
Normalize_OnCopy ==
    /\ phase = "idle"
    /\ nerr = "none"
    /\ ncalls < MaxCalls
    /\ LET r == transform_input(input)
       IN  /\ input' = input
           /\ ret' = IF r.err = "none" THEN r.out ELSE <<>>
           /\ nerr' = r.err
    /\ ncalls' = ncalls + 1
    /\ UNCHANGED <<orig, phase, loc>>

\* left = cls.transform_input(left): the list is rewritten in place and
\* the same list object is returned.
Normalize ==
    /\ phase = "idle"
    /\ nerr = "none"
    /\ ncalls < MaxCalls
    /\ LET r == transform_input(input)
       IN  /\ input' = r.out
           /\ ret' = IF r.err = "none" THEN r.out ELSE <<>>
           /\ nerr' = r.err
    /\ ncalls' = ncalls + 1
    /\ UNCHANGED <<orig, phase, loc>>

\* head = cls.parse(left): entry, the locals are initialised
ParseCall ==
    /\ phase = "idle"
    /\ nerr = "none"
    /\ phase' = "parsing"
    /\ loc' = ParseInit(input)
    /\ UNCHANGED <<orig, input, ret, ncalls, nerr>>

Settle(st) ==
    /\ loc' = st
    /\ phase' = IF st.pc = "done" THEN "returned"
                ELSE IF st.pc = "failed" THEN "raised" ELSE "parsing"
    /\ UNCHANGED <<orig, input, ret, ncalls, nerr>>

Shift ==
    /\ phase = "parsing"
    /\ Scanning(input, loc)
    /\ sym2arity(At(input, loc.i)) = 0
    /\ Settle(ShiftStep(input, loc))

ScanReduce ==
    /\ phase = "parsing"
    /\ Scanning(input, loc)
    /\ sym2arity(At(input, loc.i)) # 0
    /\ MustReduce(input, loc)
    /\ Settle(ReduceTop(input, loc))

Push ==
    /\ phase = "parsing"
    /\ Scanning(input, loc)
    /\ sym2arity(At(input, loc.i)) # 0
    /\ ~MustReduce(input, loc)
    /\ Settle(PushStep(input, loc))

DrainReduce ==
    /\ phase = "parsing"
    /\ Draining(input, loc)
    /\ Len(loc.operators) > 0
    /\ Settle(ReduceTop(input, loc))

Finish ==
    /\ phase = "parsing"
    /\ Draining(input, loc)
    /\ Len(loc.operators) = 0
    /\ Settle(FinishStep(input, loc))

Next ==
    \/ Normalize
    \/ ParseCall
    \/ Shift
    \/ ScanReduce
    \/ Push
    \/ DrainReduce
    \/ Finish

Spec == Init /\ [][Next]_vars

TypeOK ==
    /\ phase \in {"idle", "parsing", "returned", "raised"}
    /\ ncalls \in 0 .. MaxCalls
    /\ Len(input) = Len(orig)

\* ------------------------------------------------------------- properties
Returned == phase = "returned"

Positions == 0 .. Len(input) - 1

\* the position reached from p by following at most k head pointers
RECURSIVE Climb(_, _, _)
Climb(head, p, k) ==
    IF k = 0 \/ head[p] = ROOT THEN p ELSE Climb(head, head[p], k - 1)

\* C1: when parse returns, exactly one position has head ROOT and every
\* position reaches that position by following head pointers, in at most
\* as many steps as there are positions.
C1_SingleTree ==
    Returned =>
        /\ Cardinality({p \in Positions : loc.head[p] = ROOT}) = 1
        /\ \A p \in Positions :
              /\ loc.head[p] \in Positions \cup {ROOT}
              /\ loc.head[Climb(loc.head, p, Len(input))] = ROOT

C1_Witness ==
    /\ Returned
    /\ Len(input) = 4
    /\ \E p \in Positions : At(input, p) \in connect_word

\* C2: when parse returns, every position has exactly as many children as
\* the arity of its symbol (so the action words are leaves).
C2_ArityConservation ==
    Returned =>
        \A p \in Positions :
            Cardinality({c \in Positions : loc.head[c] = p}) = sym2arity(At(input, p))

C2_Witness ==
    /\ Returned
    /\ \E p, q \in Positions :
          /\ sym2arity(At(input, p)) = 2
          /\ sym2arity(At(input, q)) = 1

\* C10: while parse runs, the operator stack holds positions of symbols of
\* arity >= 1 only, their precedence classes increase strictly from bottom
\* to top, and so the stack never holds more than 4 positions.
C10_OperatorStack ==
    phase # "idle" =>
        /\ \A j \in 1 .. Len(loc.operators) : sym2arity(At(input, loc.operators[j])) >= 1
        /\ \A j \in 1 .. Len(loc.operators) - 1 :
              op2precedence(At(input, loc.operators[j]))
                  < op2precedence(At(input, loc.operators[j + 1]))
        /\ Len(loc.operators) <= 4

C10_Witness ==
    /\ phase = "parsing"
    /\ Len(loc.operators) = 4
LastIsTurn(t) == Len(t) > 0 /\ t[Len(t)] \in turn_times_word

AdjacentTurns(t) ==
    \E p \in 1 .. Len(t) - 1 : t[p] \in turn_times_word /\ t[p + 1] \in turn_times_word

Count(t, w) == Cardinality({p \in 1 .. Len(t) : t[p] = w})

\* the returned list is the caller's list with every turn-repeat token
\* exchanged with the token that followed it
Rewritten ==
    /\ nerr = "none"
    /\ Len(ret) = Len(orig)
    /\ \A w \in vocab : Count(ret, w) = Count(orig, w)
    /\ \A p \in 1 .. Len(orig) :
          /\ orig[p] \in turn_times_word =>
                p < Len(orig) /\ ret[p + 1] = orig[p] /\ ret[p] = orig[p + 1]
          /\ (orig[p] \notin turn_times_word /\ (p = 1 \/ orig[p - 1] \notin turn_times_word))
                => ret[p] = orig[p]

\* C3 as stated: for every list whose last token is not a turn-repeat
\* token, transform_input returns a permutation of the same length in which
\* every turn-repeat token stands right after the token that followed it
\* and the other tokens keep their positions.
C3_AsStated == (ncalls = 1 /\ ~LastIsTurn(orig)) => Rewritten

\* C3 amended: the same, for lists in which no turn-repeat token is last or
\* immediately followed by another turn-repeat token.
C3_Rewrite == (ncalls = 1 /\ ~LastIsTurn(orig) /\ ~AdjacentTurns(orig)) => Rewritten

C3_Witness ==
    /\ ncalls = 1
    /\ ~LastIsTurn(orig)
    /\ ~AdjacentTurns(orig)
    /\ Cardinality({p \in 1 .. Len(orig) : orig[p] \in turn_times_word}) = 2
    /\ ret # orig

\* every turn-repeat token is immediately followed by a direction word, as
\* in the commands of the dataset
TurnsBeforeDirs(t) ==
    \A p \in 1 .. Len(t) :
        t[p] \in turn_times_word => (p < Len(t) /\ t[p + 1] \in dir_word)

\* C4: transform_input is idempotent: for a list in which every turn-repeat
\* token is followed by its direction word, a second call on the result of
\* the first succeeds and returns the result of the first.
C4_Idempotent ==
    (ncalls = 2 /\ TurnsBeforeDirs(orig)) =>
        (nerr = "none" /\ ret = transform_input(orig).out)

\* a reduction is due: in the scan by the while condition, in the drain by
\* a non-empty operator stack
ReductionDue ==
    /\ phase = "parsing"
    /\ Len(loc.operators) > 0
    /\ IF Scanning(input, loc)
       THEN sym2arity(At(input, loc.i)) # 0 /\ MustReduce(input, loc)
       ELSE TRUE

Underflow ==
    /\ ReductionDue
    /\ sym2arity(At(input, Top(loc.operators))) > Len(loc.values)

AtEnd == phase = "parsing" /\ Draining(input, loc) /\ Len(loc.operators) = 0

\* C5: parse raises whenever a reduction needs more values than the value
\* stack holds, and whenever the values left after the drain are not exactly
\* one; it returns only from the end with exactly one value left; and it
\* never returns for a list that is a single connector.
C5_MalformedFails ==
    /\ [][/\ Underflow => (phase' = "raised" /\ loc'.err = "IndexError")
          /\ (AtEnd /\ Len(loc.values) = 0) => (phase' = "raised" /\ loc'.err = "IndexError")
          /\ (AtEnd /\ Len(loc.values) > 1) => (phase' = "raised" /\ loc'.err = "AssertionError")
          /\ (phase = "parsing" /\ phase' = "returned") => (AtEnd /\ Len(loc.values) = 1)]_vars
    /\ []((Len(input) = 1 /\ input[1] \in connect_word) => ~Returned)

C5_Witness ==
    /\ phase = "raised"
    /\ loc.err = "IndexError"
    /\ Len(input) = 1
    /\ input[1] \in connect_word

TurnThenDir(t) == Len(t) = 2 /\ t[1] \in turn_times_word /\ t[2] \in dir_word

ActionTurnDir(t) ==
    Len(t) = 3 /\ t[1] \in action_word /\ t[2] \in turn_times_word /\ t[3] \in dir_word

ParseOver == phase \in {"returned", "raised"}

\* C6 as stated: for a turn-repeat token t and a direction token d,
\* transform_input([t, d]) returns [d, t] and parse([d, t]) returns
\* head[0] = 1, head[1] = ROOT.
C6_AsStated ==
    (TurnThenDir(orig) /\ ncalls = 1 /\ ParseOver) =>
        /\ ret = <<orig[2], orig[1]>>
        /\ Returned
        /\ loc.head[0] = 1
        /\ loc.head[1] = ROOT

\* C6 amended: transform_input([t, d]) returns [d, t], and parse([d, t])
\* raises IndexError (the direction word finds no value to attach); with an
\* action word a in front, transform_input([a, t, d]) returns [a, d, t] and
\* parse of it returns head[0] = 1, head[1] = 2, head[2] = ROOT.
C6_TurnDir ==
    /\ (TurnThenDir(orig) /\ ncalls = 1) => ret = <<orig[2], orig[1]>>
    /\ (TurnThenDir(orig) /\ ncalls = 1 /\ ParseOver) =>
          (phase = "raised" /\ loc.err = "IndexError")
    /\ (ActionTurnDir(orig) /\ ncalls = 1) => ret = <<orig[1], orig[3], orig[2]>>
    /\ (ActionTurnDir(orig) /\ ncalls = 1 /\ ParseOver) =>
          (Returned /\ loc.head[0] = 1 /\ loc.head[1] = 2 /\ loc.head[2] = ROOT)

C6_Witness ==
    /\ ActionTurnDir(orig)
    /\ ncalls = 1
    /\ Returned

\* C8 as stated: neither transform_input nor parse changes the list the
\* caller passed.
C8_AsStated == [][input' = input]_vars

\* C8 amended: parse leaves the caller's list as it was; transform_input
\* rewrites the caller's list in place and returns it, so after a call that
\* returns the caller's list holds the returned tokens, and it differs from
\* what it held before exactly when it held a turn-repeat token.
C8_InPlace ==
    [][/\ phase = "parsing" => input' = input
       /\ phase' = "parsing" => input' = input
       /\ (ncalls' # ncalls /\ nerr' = "none") =>
             /\ ret' = input'
             /\ (input' # input) <=> (\E p \in 1 .. Len(input) : input[p] \in turn_times_word)]_vars

C8_Witness ==
    /\ ncalls = 1
    /\ nerr = "none"
    /\ input # orig
    /\ ret = input
    /\ Returned

\* a list of the form  action u* (connector action u*)*  with u any word
\* of arity 1
GrammarShape(t) ==
    /\ Len(t) >= 1
    /\ t[1] \in action_word
    /\ t[Len(t)] \notin connect_word
    /\ \A p \in 2 .. Len(t) :
          /\ t[p] \in action_word <=> t[p - 1] \in connect_word

\* every connector's two children sat on the value stack in ascending
\* position order when it reduced
ChildOrder ==
    \A p \in Positions :
        At(input, p) \in connect_word =>
            (Len(loc.args[p]) = 2 /\ loc.args[p][1] < loc.args[p][2])

\* C9 as stated: in every head array parse returns, the two children of
\* each connector were on the value stack in ascending position order.
C9_AsStated == Returned => ChildOrder

\* C9 amended: the same, for lists of the form
\* action u* (connector action u*)*, u a word of arity 1.
C9_ChildOrder == (Returned /\ GrammarShape(input)) => ChildOrder

C9_Witness ==
    /\ Returned
    /\ GrammarShape(input)
    /\ Len(input) = 4
    /\ \E p \in Positions : At(input, p) \in connect_word
\* a phrase: an action word followed by words of arity 1
IsPhrase(t) ==
    /\ Len(t) >= 1
    /\ t[1] \in action_word
    /\ \A p \in 2 .. Len(t) : sym2arity(t[p]) = 1

\* the action tuple of a list taken on its own through transform_input,
\* parse and evaluate
EvalOf(t) ==
    LET n == transform_input(t)
        st == parse(n.out)
    IN  IF n.err # "none" THEN [err |-> n.err, val |-> <<>>]
        ELSE IF st.pc # "done" THEN [err |-> st.err, val |-> <<>>]
        ELSE evaluate(n.out, st.head)

\* C7: for a command A c B with phrases A and B that evaluate on their own
\* and c a connector, evaluating the head array of parse(transform_input(A c B))
\* gives eval(A) followed by eval(B) for 'and' and eval(B) followed by
\* eval(A) for 'after'; jump left and walk gives (5, 4, 1).
C7_Evaluation ==
    (Returned /\ ncalls = 1) =>
        /\ \A k \in 2 .. Len(orig) - 1 :
              LET A == SubSeq(orig, 1, k - 1)
                  B == SubSeq(orig, k + 1, Len(orig))
              IN  (orig[k] \in connect_word /\ IsPhrase(A) /\ IsPhrase(B)
                      /\ EvalOf(A).err = "none" /\ EvalOf(B).err = "none") =>
                      /\ evaluate(input, loc.head).err = "none"
                      /\ evaluate(input, loc.head).val =
                            IF orig[k] = "and" THEN EvalOf(A).val \o EvalOf(B).val
                            ELSE EvalOf(B).val \o EvalOf(A).val
        /\ orig = <<"jump", "left", "and", "walk">> =>
              evaluate(input, loc.head) = [err |-> "none", val |-> <<5, 4, 1>>]

C7_Witness ==
    /\ Returned
    /\ ncalls = 1
    /\ Len(orig) = 4
    /\ orig[3] = "after"
    /\ IsPhrase(SubSeq(orig, 1, 2))
    /\ IsPhrase(SubSeq(orig, 4, 4))
    /\ EvalOf(SubSeq(orig, 1, 2)).val # <<>>
    /\ EvalOf(SubSeq(orig, 4, 4)).val # <<>>
    /\ evaluate(input, loc.head).val = EvalOf(SubSeq(orig, 4, 4)).val \o EvalOf(SubSeq(orig, 1, 2)).val
====
